---------------------------- MODULE Spec2Model ----------------------------
(***************************************************************************)
(* A model of runas: a caller drives a privileged helper process through   *)
(* a length-framed request/response channel.                               *)
(*                                                                         *)
(*   SpecPipe  the framed transport alone (StdPipe / StringPipe read and   *)
(*             write over one byte conduit);                               *)
(*   Spec      a whole session: SudoProxy.start / proxied calls / close /  *)
(*             terminate on the caller side, SudoProxy.run on the helper   *)
(*             side, the elevation program in front of the helper;         *)
(*   FairSpec  Spec with the scheduling of blocking calls and running      *)
(*             processes stated as weak fairness.                          *)
(***************************************************************************)
EXTENDS Integers, Sequences, FiniteSets, TLC

VARIABLES
    \* ---- framed transport (SpecPipe) ----
    fwire,      \* the conduit: [buf, w, r]
    fwq,        \* chunks the writer's write() still has to _write
    fsent,      \* payloads whose write() returned
    frecvd,     \* payloads read() returned
    frd,        \* reader position inside read(): "idle" | "body"
    frsz,       \* the length read() unpacked
    flast,      \* how the last read() ended: "none" | "data" | "eof"
    ftrunc,     \* the peer closed in the middle of a frame
    \* ---- session (Spec) ----
    backend,    \* which launcher module spawn_sudo comes from
    ppc,        \* caller: position in the running operation
    pop,        \* caller: the running operation
    pcall,      \* caller: (method name, args) of the running proxied call
    pwq,        \* caller: chunks the running pipe.write() still has to _write
    pwbuf,      \* caller: bytes held by the buffered write stream
    prd,        \* caller: position inside pipe.read(): "hdr" | "body"
    prsz,       \* caller: the length pipe.read() unpacked
    pres,       \* caller: how the last operation ended
    nops,       \* caller: operations invoked so far
    closed,     \* SudoProxy.closed
    pipe,       \* SudoProxy.pipe: "None" | "pipe"
    procset,    \* SudoProxy.proc has been assigned
    plocal,     \* caller's stream handles: "none" | "open" | "closed"
    wrap,       \* cached stand-ins: name -> "none" | "nopipe" | "pipe"
    proc,       \* the spawned process: "none" | "running" | "exited" | "killed"
    auth,       \* the elevation program's verdict: "none" | "pending" | "accepted" | "rejected"
    hpc,        \* helper: position in run_proxy_startup / SudoProxy.run
    hwq,        \* helper: chunks the running pipe.write() still has to _write
    hrd,        \* helper: position inside pipe.read()
    hrsz,       \* helper: the length pipe.read() unpacked
    hcall,      \* helper: the decoded call being dispatched
    hres,       \* helper: the outcome of the dispatched method
    tstate,     \* the helper's target object
    p2h,        \* conduit caller -> helper (the helper's stdin)
    h2p,        \* conduit helper -> caller (the helper's stdout)
    err,        \* the spawned process's error stream
    \* ---- history ----
    pwdWrites,  \* times the password was written to the elevation program
    nCloseSent, \* close sentinels the caller has written
    nReady,     \* READY markers the helper has written
    hFrames,    \* frames the helper has read
    hReadyLate, \* the helper read a frame before writing READY
    pGotReady,  \* start() has read the READY marker
    pEarly,     \* the caller wrote an envelope before READY was received
    refState,   \* the target as direct invocation of the issued calls leaves it
    expect,     \* what direct invocation of the running call yields
    healthy,    \* the session is started, no close sentinel was written, the helper was not told to exit
    errRead,    \* what spawn_sudo read from the error stream
    hlocal,     \* the helper's stream handles: "none" | "open" | "closed"
    hend,       \* what ended the helper's loop: "none" | "close" | "eof"
    nAck,       \* acknowledgement frames the helper has written
    hStray,     \* the helper read, dispatched or answered after its loop had ended
    hwbuf,      \* bytes a failed flush left in the helper's write stream
    hclose,     \* how the helper's pipe.close() ended: "none" | "ok" | "BrokenPipeError"
    qin,        \* what a launcher or a privilege query finds on the machine
    qop,        \* the launcher or platform whose function was applied to qin
    qout,       \* what the function returned or raised
    nReq,       \* request frames the caller's calls have written
    nCalls,     \* Call Envelopes the helper has read
    nResp,      \* Result Envelopes the helper has written
    nRespRead,  \* response frames the caller's calls have read
    rth,        \* two threads sharing one pipe: each one's position, request and response
    rnext,      \* responses the threads have taken from the channel
    rover,      \* one thread entered write() while the other was inside its call
    wpipe,      \* the two endpoints of a Windows named pipe
    fifo        \* the FIFO pair: names in the file system, the two endpoints, names a third process opened

pipeVars == <<fwire, fwq, fsent, frecvd, frd, frsz, flast, ftrunc>>
callerVars == <<ppc, pop, pcall, pwq, pwbuf, prd, prsz, pres, nops, closed,
                pipe, procset, plocal, wrap>>
helperVars == <<hpc, hwq, hrd, hrsz, hcall, hres, tstate>>
envVars == <<backend, proc, auth, p2h, h2p, err>>
histVars == <<pwdWrites, nCloseSent, nReady, hFrames, hReadyLate, pGotReady,
              pEarly, refState, expect, healthy>>
hobsVars == <<hlocal, hend, nAck, hStray, hwbuf, hclose>>
probeVars == <<qin, qop, qout>>
altVars == <<nReq, nCalls, nResp, nRespRead>>
raceVars == <<rth, rnext, rover>>
extVars == <<raceVars, wpipe, fifo>>
coreVars == <<callerVars, helperVars, envVars, histVars, errRead, hobsVars, probeVars,
              altVars>>
sessVars == <<coreVars, extVars>>
vars == <<pipeVars, sessVars>>

-----------------------------------------------------------------------------
(* Bounds *)

\* longest payload the transport model writes
MaxLen == 2
\* frames the transport model writes
MaxFrames == 2
\* operations the caller invokes on one proxy
MaxOps == 3
\* low-level reads and writes per named-pipe endpoint
MaxIo == 6

-----------------------------------------------------------------------------
(* Bytes and frames *)

Min(a, b) == IF a < b THEN a ELSE b

Take(s, n) == SubSeq(s, 1, Min(n, Len(s)))

Drop(s, n) == SubSeq(s, Min(n, Len(s)) + 1, Len(s))

\* struct.pack("I", n): 4 bytes, native (little-endian) order
PackI(n) == <<n % 256, (n \div 256) % 256, (n \div 65536) % 256, (n \div 16777216) % 256>>

\* struct.unpack("I", b)[0] with the byte order of the peer swapped
UnpackI_be(b) == b[4] + 256 * b[3] + 65536 * b[2] + 16777216 * b[1]

\* struct.unpack("I", b)[0]
UnpackI(b) == b[1] + 256 * b[2] + 65536 * b[3] + 16777216 * b[4]

\* a conduit: bytes in flight, writer end open, reader end open
NewStream == [buf |-> <<>>, w |-> TRUE, r |-> TRUE]

\* read_stream.read(size) returns: size bytes are there, or the writer is gone
CanRead(s, n) == Len(s.buf) >= n \/ ~s.w

\* the test read() makes on the body, dropped
ShortRead_off(data, sz) == FALSE

\* read(): len(data) < sz
ShortRead(data, sz) == Len(data) < sz

\* read(), first half: sz = self._read(4); EOFError when short
ReadHdr(s) ==
    LET d == Take(s.buf, 4) IN
    [s |-> [s EXCEPT !.buf = Drop(s.buf, 4)],
     eof |-> ShortRead(d, 4),
     sz |-> IF Len(d) < 4 THEN 0 ELSE UnpackI(d)]

\* read(), second half: data = self._read(sz); EOFError when short
ReadBody(s, sz) ==
    LET d == Take(s.buf, sz) IN
    [s |-> [s EXCEPT !.buf = Drop(s.buf, sz)],
     eof |-> ShortRead(d, sz),
     data |-> d]

\* write(data) without the length prefix
WriteChunks_nolen(data) == <<data>>

\* write(data): self._write(struct.pack("I", len(data))); self._write(data)
WriteChunks(data) == <<PackI(Len(data)), data>>

-----------------------------------------------------------------------------
(* The framed transport alone *)

PayloadBytes == {0, 1}

Payloads == UNION {[1..n -> PayloadBytes] : n \in 0..MaxLen}

PipeInit ==
    /\ fwire = NewStream
    /\ fwq = <<>>
    /\ fsent = <<>>
    /\ frecvd = <<>>
    /\ frd = "idle"
    /\ frsz = 0
    /\ flast = "none"
    /\ ftrunc = FALSE

\* write(P) is entered
FWrite ==
    /\ UNCHANGED sessVars
    /\ fwire.w /\ fwq = <<>> /\ Len(fsent) < MaxFrames
    /\ \E P \in Payloads : fwq' = WriteChunks(P) \o <<P>>
    /\ UNCHANGED <<fwire, fsent, frecvd, frd, frsz, flast, ftrunc>>

\* one _write of the running write(): the chunk reaches the conduit whole
FWriteChunk ==
    /\ UNCHANGED sessVars
    /\ fwire.w /\ Len(fwq) > 1
    /\ fwire' = [fwire EXCEPT !.buf = @ \o Head(fwq)]
    /\ IF Len(fwq) = 2
         THEN fwq' = <<>> /\ fsent' = Append(fsent, fwq[2])
         ELSE fwq' = Tail(fwq) /\ fsent' = fsent
    /\ UNCHANGED <<frecvd, frd, frsz, flast, ftrunc>>

\* the peer closes its end between two frames
FPeerClose ==
    /\ UNCHANGED sessVars
    /\ fwire.w /\ fwq = <<>>
    /\ fwire' = [fwire EXCEPT !.w = FALSE]
    /\ UNCHANGED <<fwq, fsent, frecvd, frd, frsz, flast, ftrunc>>

\* the peer dies inside a frame: a strict part of what is left of the frame
\* reaches the conduit, then the conduit is closed
FPeerCrash ==
    /\ UNCHANGED sessVars
    /\ fwire.w /\ Len(fwq) > 1
    /\ LET rest == IF Len(fwq) = 3 THEN fwq[1] \o fwq[2] ELSE fwq[1] IN
       \E k \in 0..(Len(rest) - 1) :
           fwire' = [fwire EXCEPT !.buf = @ \o Take(rest, k), !.w = FALSE]
    /\ fwq' = <<>>
    /\ ftrunc' = TRUE
    /\ UNCHANGED <<fsent, frecvd, frd, frsz, flast>>

\* read(): the 4-byte length
FReadHdr ==
    /\ UNCHANGED sessVars
    /\ frd = "idle" /\ CanRead(fwire, 4)
    /\ LET r == ReadHdr(fwire) IN
       /\ fwire' = r.s
       /\ IF r.eof
            THEN frd' = "idle" /\ flast' = "eof" /\ frsz' = 0
            ELSE frd' = "body" /\ flast' = "none" /\ frsz' = r.sz
    /\ UNCHANGED <<fwq, fsent, frecvd, ftrunc>>

\* read(): the body
FReadBody ==
    /\ UNCHANGED sessVars
    /\ frd = "body" /\ CanRead(fwire, frsz)
    /\ LET r == ReadBody(fwire, frsz) IN
       /\ fwire' = r.s
       /\ IF r.eof
            THEN flast' = "eof" /\ frecvd' = frecvd
            ELSE flast' = "data" /\ frecvd' = Append(frecvd, r.data)
    /\ frd' = "idle"
    /\ frsz' = 0
    /\ UNCHANGED <<fwq, fsent, ftrunc>>

PipeNext ==
    \/ FWrite
    \/ FWriteChunk
    \/ FPeerClose
    \/ FPeerCrash
    \/ FReadHdr
    \/ FReadBody

-----------------------------------------------------------------------------
(* The framed transport over an unbuffered conduit: a FIFO read with        *)
(* os.read, a named pipe read with ReadFile                                *)

\* os.read(rfd, size) / ReadFile(pipe, data, size, ...) returns: some bytes
\* are there, none were asked for, or the writer is gone
RawCanRead(s, n) == n = 0 \/ s.buf # <<>> \/ ~s.w

\* one _write of the running write(): the conduit takes the chunk in one or
\* more pieces, as its capacity allows
RWriteChunk ==
    /\ UNCHANGED sessVars
    /\ fwire.w /\ Len(fwq) > 1
    /\ \E k \in (IF Head(fwq) = <<>> THEN {0} ELSE 1..Len(Head(fwq))) :
         /\ fwire' = [fwire EXCEPT !.buf = @ \o Take(Head(fwq), k)]
         /\ IF k < Len(Head(fwq))
              THEN /\ fwq' = <<Drop(Head(fwq), k)>> \o Tail(fwq)
                   /\ fsent' = fsent
              ELSE IF Len(fwq) = 2
                THEN fwq' = <<>> /\ fsent' = Append(fsent, fwq[2])
                ELSE fwq' = Tail(fwq) /\ fsent' = fsent
    /\ UNCHANGED <<frecvd, frd, frsz, flast, ftrunc>>

\* read(): sz = self._read(4) on the unbuffered conduit
RReadHdr ==
    /\ UNCHANGED sessVars
    /\ frd = "idle" /\ RawCanRead(fwire, 4)
    /\ LET r == ReadHdr(fwire) IN
       /\ fwire' = r.s
       /\ IF r.eof
            THEN frd' = "idle" /\ flast' = "eof" /\ frsz' = 0
            ELSE frd' = "body" /\ flast' = "none" /\ frsz' = r.sz
    /\ UNCHANGED <<fwq, fsent, frecvd, ftrunc>>

\* read(): data = self._read(sz) on the unbuffered conduit
RReadBody ==
    /\ UNCHANGED sessVars
    /\ frd = "body" /\ RawCanRead(fwire, frsz)
    /\ LET r == ReadBody(fwire, frsz) IN
       /\ fwire' = r.s
       /\ IF r.eof
            THEN flast' = "eof" /\ frecvd' = frecvd
            ELSE flast' = "data" /\ frecvd' = Append(frecvd, r.data)
    /\ frd' = "idle"
    /\ frsz' = 0
    /\ UNCHANGED <<fwq, fsent, ftrunc>>

RawNext ==
    \/ FWrite
    \/ RWriteChunk
    \/ FPeerClose
    \/ RReadHdr
    \/ RReadBody

-----------------------------------------------------------------------------
(* Values and their serialization *)

VStr(s) == <<"str", s>>
VInt(n) == <<"int", n>>
VBool(b) == <<"bool", b>>
VExc(kind, msg) == <<"exc", kind, msg>>
VTup(items) == <<"tup", items>>
None == <<"none">>
Bad == <<"bad">>

\* the strings and exception classes that cross the channel
StrTab == <<"CLOSE", "CLOSING", "is_root", "bump", "fail", "quit", "_impl", "hang">>
KindTab == <<"ValueError", "TypeError", "AttributeError", "SystemExit">>

Idx(tab, x) == CHOOSE i \in 1..Len(tab) : tab[i] = x

RECURSIVE Dumps(_)
RECURSIVE DumpAll(_)
\* pickle.dumps of every item, one after the other
DumpAll(items) ==
    IF items = <<>> THEN <<>> ELSE Dumps(Head(items)) \o DumpAll(Tail(items))

\* pickle.dumps(v): a tag, then the content
Dumps(v) ==
    CASE v[1] = "none" -> <<0>>
      [] v[1] = "str" -> <<1, Idx(StrTab, v[2])>>
      [] v[1] = "int" -> <<2, v[2]>>
      [] v[1] = "bool" -> <<3, IF v[2] THEN 1 ELSE 0>>
      [] v[1] = "exc" -> <<4, Idx(KindTab, v[2]), v[3]>>
      [] v[1] = "tup" -> <<5, Len(v[2])>> \o DumpAll(v[2])

\* the element of a one-element set: an intermediate result is computed once,
\* as the set's member, and then used
Only(S) == CHOOSE x \in S : TRUE

RECURSIVE Parse(_)
RECURSIVE ParseN(_, _)
\* n values parsed off the front of b
ParseN(b, n) ==
    IF n = 0 THEN [ok |-> TRUE, vs |-> <<>>, rest |-> b]
    ELSE Only({IF ~first.ok THEN [ok |-> FALSE, vs |-> <<>>, rest |-> <<>>]
               ELSE Only({[ok |-> more.ok, vs |-> <<first.v>> \o more.vs,
                           rest |-> more.rest] :
                          more \in {ParseN(first.rest, n - 1)}}) :
               first \in {Parse(b)}})

\* one value parsed off the front of b
Parse(b) ==
    LET fail == [ok |-> FALSE, v |-> Bad, rest |-> <<>>] IN
    IF b = <<>> THEN fail
    ELSE CASE b[1] = 0 -> [ok |-> TRUE, v |-> None, rest |-> Drop(b, 1)]
           [] b[1] = 1 ->
                IF Len(b) >= 2 /\ b[2] \in 1..Len(StrTab)
                  THEN [ok |-> TRUE, v |-> VStr(StrTab[b[2]]), rest |-> Drop(b, 2)]
                  ELSE fail
           [] b[1] = 2 ->
                IF Len(b) >= 2
                  THEN [ok |-> TRUE, v |-> VInt(b[2]), rest |-> Drop(b, 2)]
                  ELSE fail
           [] b[1] = 3 ->
                IF Len(b) >= 2 /\ b[2] \in {0, 1}
                  THEN [ok |-> TRUE, v |-> VBool(b[2] = 1), rest |-> Drop(b, 2)]
                  ELSE fail
           [] b[1] = 4 ->
                IF Len(b) >= 3 /\ b[2] \in 1..Len(KindTab)
                  THEN [ok |-> TRUE, v |-> VExc(KindTab[b[2]], b[3]), rest |-> Drop(b, 3)]
                  ELSE fail
           [] b[1] = 5 ->
                IF Len(b) >= 2
                  THEN Only({[ok |-> r.ok, v |-> IF r.ok THEN VTup(r.vs) ELSE Bad,
                              rest |-> r.rest] :
                             r \in {ParseN(Drop(b, 2), b[2])}})
                  ELSE fail
           [] OTHER -> fail

\* pickle.loads(b); Bad stands for the UnpicklingError it raises
Loads(b) ==
    Only({IF r.ok /\ r.rest = <<>> THEN r.v ELSE Bad : r \in {Parse(b)}})

\* b"READY", as start compares it
READY == <<82, 69, 65, 68, 89>>

\* a helper that announces itself with other bytes
ReadyMarker_other == <<82, 69, 65, 68, 33>>

\* b"READY", as run writes it
ReadyMarker == <<82, 69, 65, 68, 89>>

\* pickle.dumps("CLOSE"), pickle.dumps("CLOSING")
CloseMsg == Dumps(VStr("CLOSE"))
ClosingMsg == Dumps(VStr("CLOSING"))

-----------------------------------------------------------------------------
(* The target object: a sample with a query, a state-changing method, a    *)
(* method that raises an error, a method that asks the process to exit,    *)
(* an internal method "_impl" that is also reachable as "alias", and a     *)
(* method that does not return.                                            *)

\* the sample target counts modulo TMod
TMod == 3
Args == {1, 2}
Methods == {"is_root", "bump", "fail", "quit", "alias", "_impl", "hang"}

\* the attribute names a caller asks the proxy for; "nope" is no attribute of the target
Names == Methods \cup {"nope"}

\* names that begin with "_"
Reserved == {"_impl"}

\* the methods that take an argument
Unary == {"bump", "fail"}

\* method.__name__ of the target's attribute
NameOf(attr) == IF attr = "alias" THEN "_impl" ELSE attr

\* the argument tuples a caller passes to each method
ArgsOf(m) == IF m \in Unary THEN {<<a>> : a \in Args} ELSE {<<>>}

\* classes derived from Exception; SystemExit derives from BaseException only
ExceptionKinds == {"ValueError", "TypeError", "AttributeError"}

Returned(val, t) == [kind |-> "return", val |-> val, t |-> t]
\* the method is still running
Running(t) == [kind |-> "hang", val |-> None, t |-> t]
Raised(e, t) == [kind |-> "raise", val |-> e, t |-> t]

\* getattr(target, methname)(*args) on a target in state t
TargetCall(methname, args, t) ==
    IF methname \notin Methods THEN Raised(VExc("AttributeError", 0), t)
    ELSE IF Len(args) # (IF methname \in Unary THEN 1 ELSE 0)
      THEN Raised(VExc("TypeError", 0), t)
    ELSE CASE methname = "is_root" -> Returned(VBool(TRUE), t)
           [] methname \in {"alias", "_impl"} -> Returned(None, 0)
           [] methname = "bump" ->
                Returned(VInt((t + args[1][2]) % TMod), (t + args[1][2]) % TMod)
           [] methname = "fail" -> Raised(VExc("ValueError", args[1][2]), t)
           [] methname = "quit" -> Raised(VExc("SystemExit", 0), t)
           [] methname = "hang" -> Running(t)


-----------------------------------------------------------------------------
(* Session: outcomes, envelopes, bookkeeping *)

Ok(v) == [st |-> "ok", v |-> v]
Raise(kind) == [st |-> "raise", v |-> VExc(kind, 0)]
NoResult == [st |-> "none", v |-> None]

NoOut == [kind |-> "none", val |-> None, t |-> 0]
NoCall == <<"", <<>>>>

\* the call envelope with the arguments left out
CallEnvelope_noargs(name, args) == VTup(<<VStr(name), VTup(<<>>)>>)

\* wrapper: call = (method.__name__, args)
CallEnvelope(name, args) == VTup(<<VStr(name), VTup(args)>>)

\* every outcome reported as a success
ResultEnvelope_ok(out) == VTup(<<VBool(TRUE), out.val>>)

\* run: pickle.dumps((False, e)) for a caught fault, pickle.dumps((True, res)) otherwise
ResultEnvelope(out) ==
    IF out.kind = "raise"
      THEN VTup(<<VBool(FALSE), out.val>>)
      ELSE VTup(<<VBool(TRUE), out.val>>)

\* run: "except Exception as e" takes the classes derived from Exception
Catches(e) == e[2] \in ExceptionKinds

\* wrapper: (success, result) = pickle.loads(...); raise result unless success
Unwrap(data) ==
    LET v == Loads(data) IN
    IF v = Bad THEN Raise("UnpicklingError")
    ELSE IF v[1] # "tup" THEN Raise("ValueError: unpack")
    ELSE IF Len(v[2]) # 2 THEN Raise("ValueError: unpack")
    ELSE IF v[2][1] = VBool(TRUE) THEN Ok(v[2][2])
    ELSE IF v[2][2][1] = "exc" THEN [st |-> "raise", v |-> v[2][2]]
    ELSE Raise("TypeError: exceptions must derive from BaseException")

\* terminate always runs close() first
NeedsClose_always(c) == TRUE

\* terminate: "if not self.closed"
NeedsClose(c) == ~c

\* any answer of the elevation program taken for the marker
CredentialsAccepted_any(result) == result # <<>>

\* posix.spawn_sudo: result == b"@"
CredentialsAccepted(result) == result = <<64>>

\* bookkeeping at the entry of an operation: what came before it and where
\* the helper stood
Prev ==
    IF pop = "close" /\ pres.st = "ok" THEN "close"
    ELSE IF pop = "call" /\ expect.live /\ expect.out.kind = "raise" THEN "fault"
    ELSE IF pop = "call" /\ pcall[1] \notin Methods THEN "unknown"
    ELSE "none"

Expect(live, out) ==
    [live |-> live, out |-> out, prev |-> Prev, peer |-> hpc,
     eof |-> (pop \in {"start", "call"} /\ pres = Raise("EOFError"))]

\* the caller's operation ends with result res
Finish(res) ==
    /\ ppc' = "idle"
    /\ pres' = res
    /\ pwq' = <<>>
    /\ prd' = "hdr"
    /\ prsz' = 0

\* the process is gone: every descriptor it (or the program in front of it) held is released
Released(s) == [s EXCEPT !.r = FALSE]
Hushed(s) == [s EXCEPT !.w = FALSE]

-----------------------------------------------------------------------------
(* Caller: SudoProxy.start *)

\* spawn_sudo: find_exe("sudo") is None
PStartNoSudo ==
    /\ UNCHANGED pipeVars
    /\ UNCHANGED probeVars
    /\ UNCHANGED extVars
    /\ UNCHANGED altVars
    /\ UNCHANGED hobsVars
    /\ ppc = "idle" /\ nops < MaxOps /\ proc = "none"
    /\ pop' = "start" /\ nops' = nops + 1
    /\ pres' = Raise("RuntimeError: no sudo found")
    /\ expect' = Expect(FALSE, NoOut)
    /\ UNCHANGED <<ppc, pcall, pwq, pwbuf, prd, prsz, closed, pipe, procset, plocal, wrap>>
    /\ UNCHANGED <<helperVars, envVars>>
    /\ UNCHANGED <<pwdWrites, nCloseSent, nReady, hFrames, hReadyLate, pGotReady,
                   pEarly, refState, healthy, errRead>>

\* spawn_sudo: Popen, the password written to the program's standard input;
\* sudo_posix returns (proc, StdPipe) at once, posix goes on to read the error stream
PStart ==
    /\ UNCHANGED pipeVars
    /\ UNCHANGED probeVars
    /\ UNCHANGED extVars
    /\ UNCHANGED altVars
    /\ UNCHANGED hobsVars
    /\ ppc = "idle" /\ nops < MaxOps /\ proc = "none"
    /\ pop' = "start" /\ nops' = nops + 1
    /\ proc' = "running" /\ auth' = "pending"
    /\ p2h' = NewStream /\ h2p' = NewStream
    /\ err' = IF backend = "posix" THEN NewStream ELSE [buf |-> <<>>, w |-> FALSE, r |-> FALSE]
    /\ pwdWrites' = pwdWrites + 1
    /\ IF backend = "posix"
         THEN ppc' = "spawn_err" /\ UNCHANGED <<pipe, procset, plocal>>
         ELSE ppc' = "poll" /\ pipe' = "pipe" /\ procset' = TRUE /\ plocal' = "open"
    /\ expect' = Expect(FALSE, NoOut)
    /\ UNCHANGED <<pcall, pwq, pwbuf, prd, prsz, pres, closed, wrap, backend>>
    /\ UNCHANGED helperVars
    /\ UNCHANGED <<nCloseSent, nReady, hFrames, hReadyLate, pGotReady, pEarly,
                   refState, healthy, errRead>>

\* posix.spawn_sudo: result = proc.stderr.read(1); proc.stderr.close(); on anything
\* but the marker close stdin and stdout, kill, raise "wrong password"
PSpawnErr ==
    /\ UNCHANGED pipeVars
    /\ UNCHANGED probeVars
    /\ UNCHANGED extVars
    /\ UNCHANGED altVars
    /\ UNCHANGED hobsVars
    /\ ppc = "spawn_err"
    /\ CanRead(err, 1)
    /\ LET result == Take(err.buf, 1) IN
       /\ errRead' = result
       /\ IF CredentialsAccepted(result)
            THEN /\ err' = [err EXCEPT !.buf = Drop(@, 1), !.r = FALSE]
                 /\ pipe' = "pipe" /\ procset' = TRUE /\ plocal' = "open"
                 /\ ppc' = "poll"
                 /\ UNCHANGED <<pres, pwq, prd, prsz, proc, p2h, h2p, hpc>>
            ELSE /\ err' = [buf |-> Drop(err.buf, 1), w |-> FALSE, r |-> FALSE]
                 /\ p2h' = [p2h EXCEPT !.w = FALSE, !.r = FALSE]
                 /\ h2p' = [h2p EXCEPT !.w = FALSE, !.r = FALSE]
                 /\ proc' = IF proc = "running" THEN "killed" ELSE proc
                 /\ hpc' = IF hpc = "none" THEN "none" ELSE "gone"
                 /\ Finish(Raise("RuntimeError: wrong password"))
                 /\ UNCHANGED <<pipe, procset, plocal>>
    /\ UNCHANGED <<pop, pcall, pwbuf, nops, closed, wrap, backend, auth>>
    /\ UNCHANGED <<hwq, hrd, hrsz, hcall, hres, tstate>>
    /\ UNCHANGED <<pwdWrites, nCloseSent, nReady, hFrames, hReadyLate, pGotReady,
                   pEarly, refState, expect, healthy>>

\* start: "if self.proc.poll() is not None: raise RuntimeError(...)"
PPoll ==
    /\ UNCHANGED pipeVars
    /\ UNCHANGED probeVars
    /\ UNCHANGED extVars
    /\ UNCHANGED altVars
    /\ UNCHANGED hobsVars
    /\ ppc = "poll"
    /\ IF proc # "running"
         THEN Finish(Raise("RuntimeError: sudo helper process terminated unexpectedly"))
         ELSE ppc' = "start_read" /\ prd' = "hdr" /\ UNCHANGED <<pres, pwq, prsz>>
    /\ UNCHANGED <<pop, pcall, pwbuf, nops, closed, pipe, procset, plocal, wrap>>
    /\ UNCHANGED <<helperVars, envVars, histVars, errRead>>


-----------------------------------------------------------------------------
(* Caller: proxied calls, close, terminate *)

\* __getattr__ caches one stand-in per name; the stand-in keeps the pipe the
\* proxy had when it was made
Bound(name) ==
    IF wrap[name] # "none" THEN wrap[name]
    ELSE IF pipe = "None" THEN "nopipe" ELSE "pipe"

\* the result of every attribute lookup taken for a method
Unresolved_ok(attr) == Ok(None)

\* __getattr__: "if attr.startswith('_'): raise AttributeError(attr)", and
\* getattr(target, attr) on a name the target does not have
Unresolved(attr) == Raise("AttributeError")

\* __getattr__ gets as far as making a stand-in
Resolves(attr) == attr \notin Reserved /\ attr \in Methods

\* proxy.name(*args): attribute lookup, then the stand-in's first statement
PCall ==
    /\ UNCHANGED pipeVars
    /\ UNCHANGED probeVars
    /\ UNCHANGED extVars
    /\ UNCHANGED altVars
    /\ UNCHANGED hobsVars
    /\ ppc = "idle" /\ nops < MaxOps
    /\ \E name \in Names : \E args \in ArgsOf(name) :
         LET live == Resolves(name) /\ healthy /\ Bound(name) = "pipe"
             out == TargetCall(name, [i \in 1..Len(args) |-> VInt(args[i])], refState)
         IN
         /\ pop' = "call" /\ nops' = nops + 1
         /\ pcall' = <<name, args>>
         /\ wrap' = IF Resolves(name) THEN [wrap EXCEPT ![name] = Bound(name)] ELSE wrap
         /\ expect' = Expect(live, IF live THEN out ELSE NoOut)
         /\ refState' = IF live THEN out.t ELSE refState
         /\ healthy' = (healthy /\ ~(live /\ out.kind = "raise" /\ ~Catches(out.val)))
         /\ IF ~Resolves(name)
              THEN Finish(Unresolved(name))
              ELSE IF Bound(name) = "nopipe"
              THEN Finish(Raise("AttributeError: NoneType has no write"))
              ELSE /\ ppc' = "call_write"
                   /\ pwq' = WriteChunks(Dumps(CallEnvelope(NameOf(name),
                                [i \in 1..Len(args) |-> VInt(args[i])])))
                   /\ UNCHANGED <<pres, prd, prsz>>
    /\ UNCHANGED <<pwbuf, closed, pipe, procset, plocal>>
    /\ UNCHANGED <<helperVars, envVars, errRead>>
    /\ UNCHANGED <<pwdWrites, nCloseSent, nReady, hFrames, hReadyLate, pGotReady, pEarly>>

\* close(): self.pipe.write(pickle.dumps("CLOSE")) is entered
BeginClose ==
    IF pipe = "None"
      THEN Finish(Raise("AttributeError: NoneType has no write")) /\ healthy' = healthy
      ELSE /\ ppc' = "close_write"
           /\ pwq' = WriteChunks(CloseMsg)
           /\ healthy' = FALSE
           /\ prd' = "hdr" /\ prsz' = 0
           /\ UNCHANGED pres

\* proxy.close()
PClose ==
    /\ UNCHANGED pipeVars
    /\ UNCHANGED probeVars
    /\ UNCHANGED extVars
    /\ UNCHANGED altVars
    /\ UNCHANGED hobsVars
    /\ ppc = "idle" /\ nops < MaxOps
    /\ pop' = "close" /\ nops' = nops + 1
    /\ expect' = Expect(healthy, NoOut)
    /\ BeginClose
    /\ UNCHANGED <<pcall, pwbuf, closed, pipe, procset, plocal, wrap>>
    /\ UNCHANGED <<helperVars, envVars, errRead>>
    /\ UNCHANGED <<pwdWrites, nCloseSent, nReady, hFrames, hReadyLate, pGotReady,
                   pEarly, refState>>

\* proxy.terminate(): "if not self.closed: self.close()"
PTerminate ==
    /\ UNCHANGED pipeVars
    /\ UNCHANGED probeVars
    /\ UNCHANGED extVars
    /\ UNCHANGED altVars
    /\ UNCHANGED hobsVars
    /\ ppc = "idle" /\ nops < MaxOps
    /\ pop' = "terminate" /\ nops' = nops + 1
    /\ expect' = Expect(healthy, NoOut)
    /\ IF NeedsClose(closed)
         THEN BeginClose
         ELSE ppc' = "term_close" /\ UNCHANGED <<pres, pwq, prd, prsz, healthy>>
    /\ UNCHANGED <<pcall, pwbuf, closed, pipe, procset, plocal, wrap>>
    /\ UNCHANGED <<helperVars, envVars, errRead>>
    /\ UNCHANGED <<pwdWrites, nCloseSent, nReady, hFrames, hReadyLate, pGotReady,
                   pEarly, refState>>

\* flush() that pushes nothing
Flush_none(buffered) == <<>>

\* _write: write_stream.flush() pushes all the stream holds to the conduit
Flush(buffered) == buffered

\* one _write of the running pipe.write(): write_stream.write(data); write_stream.flush()
PWrite ==
    /\ UNCHANGED pipeVars
    /\ UNCHANGED probeVars
    /\ UNCHANGED extVars
    /\ UNCHANGED <<nCalls, nResp, nRespRead>>
    /\ UNCHANGED hobsVars
    /\ ppc \in {"call_write", "close_write"}
    /\ LET chunk == Head(pwq)
           last == Len(pwq) = 1
       IN
       /\ nReq' = IF ppc = "call_write" /\ last /\ plocal # "closed" /\ p2h.r
                   THEN nReq + 1 ELSE nReq
       /\ IF plocal = "closed"
         THEN /\ Finish(Raise("ValueError: write to closed file"))
              /\ UNCHANGED <<pwbuf, p2h, nCloseSent, pEarly>>
         ELSE IF ~p2h.r
           THEN /\ Finish(Raise("BrokenPipeError"))
                /\ pwbuf' = pwbuf \o chunk
                /\ UNCHANGED <<p2h, nCloseSent, pEarly>>
           ELSE /\ p2h' = [p2h EXCEPT !.buf = @ \o Flush(pwbuf \o chunk)]
                /\ pwbuf' = Drop(pwbuf \o chunk, Len(Flush(pwbuf \o chunk)))
                /\ pwq' = Tail(pwq)
                /\ pEarly' = (pEarly \/ ~pGotReady)
                /\ nCloseSent' = IF last /\ ppc = "close_write"
                                   THEN nCloseSent + 1 ELSE nCloseSent
                /\ ppc' = IF ~last THEN ppc
                          ELSE IF ppc = "call_write" THEN "call_read" ELSE "close_read"
                /\ prd' = "hdr"
                /\ UNCHANGED <<pres, prsz>>
    /\ UNCHANGED <<pop, pcall, nops, closed, pipe, procset, plocal, wrap>>
    /\ UNCHANGED <<helperVars, backend, proc, auth, h2p, err, errRead>>
    /\ UNCHANGED <<pwdWrites, nReady, hFrames, hReadyLate, pGotReady, refState,
                   expect, healthy>>

\* what the caller does with the frame pipe.read() returned (or its EOFError)
AfterRead(eof, data) ==
    CASE ppc = "start_read" ->
           \* start: msg = b"" on EOFError; "if msg != b'READY': self.close(); raise"
           IF ~eof /\ data = READY
             THEN /\ Finish(Ok(None))
                  /\ pGotReady' = TRUE /\ healthy' = TRUE
                  /\ UNCHANGED closed
             ELSE /\ BeginClose
                  /\ UNCHANGED <<pGotReady, closed>>
      [] ppc = "call_read" ->
           /\ Finish(IF eof THEN Raise("EOFError") ELSE Unwrap(data))
           /\ UNCHANGED <<pGotReady, healthy, closed>>
      [] ppc = "close_read" ->
           \* close: self.pipe.read(); self.closed = True
           IF eof
             THEN /\ Finish(Raise("EOFError"))
                  /\ UNCHANGED <<pGotReady, healthy, closed>>
             ELSE /\ closed' = TRUE
                  /\ CASE pop = "close" -> Finish(Ok(None))
                       [] pop = "start" ->
                            Finish(Raise("RuntimeError: failed to spawn helper app"))
                       [] pop = "terminate" ->
                            /\ ppc' = "term_close"
                            /\ prd' = "hdr" /\ prsz' = 0
                            /\ UNCHANGED <<pres, pwq>>
                  /\ UNCHANGED <<pGotReady, healthy>>

\* one read_stream.read(n) of the running pipe.read()
PRead ==
    /\ UNCHANGED pipeVars
    /\ UNCHANGED probeVars
    /\ UNCHANGED extVars
    /\ UNCHANGED hobsVars
    /\ ppc \in {"start_read", "call_read", "close_read"}
    /\ IF prd = "hdr"
         THEN /\ CanRead(h2p, 4)
              /\ \E r \in {ReadHdr(h2p)} :
                 /\ h2p' = r.s
                 /\ IF r.eof
                      THEN AfterRead(TRUE, <<>>)
                      ELSE /\ prd' = "body" /\ prsz' = r.sz
                           /\ UNCHANGED <<ppc, pres, pwq, pGotReady, healthy, closed>>
              /\ UNCHANGED nRespRead
         ELSE /\ CanRead(h2p, prsz)
              /\ \E r \in {ReadBody(h2p, prsz)} :
                 /\ h2p' = r.s
                 /\ AfterRead(r.eof, r.data)
                 /\ nRespRead' = IF ppc = "call_read" /\ ~r.eof
                                   THEN nRespRead + 1 ELSE nRespRead
    /\ UNCHANGED <<nReq, nCalls, nResp>>
    /\ UNCHANGED <<pop, pcall, pwbuf, nops, pipe, procset, plocal, wrap>>
    /\ UNCHANGED <<helperVars, backend, proc, auth, p2h, err, errRead>>
    /\ UNCHANGED <<pwdWrites, nCloseSent, nReady, hFrames, hReadyLate, pEarly,
                   refState, expect>>

\* closing a write stream whose last flush failed succeeds
CloseFlush_quiet(buffered, readable) == "ok"

\* BufferedWriter.close(): flushes what the stream still holds, closes the
\* descriptor, and raises what the flush raised
CloseFlush(buffered, readable) ==
    IF buffered # <<>> /\ ~readable THEN "BrokenPipeError" ELSE "ok"

\* terminate: self.pipe.close(); self.pipe = None.  StdPipe.close closes the read
\* stream, then the write stream, whose close flushes what a failed flush left
PTermClose ==
    /\ UNCHANGED pipeVars
    /\ UNCHANGED probeVars
    /\ UNCHANGED extVars
    /\ UNCHANGED altVars
    /\ UNCHANGED hobsVars
    /\ ppc = "term_close"
    /\ IF pipe = "None"
         THEN /\ Finish(Raise("AttributeError: NoneType has no close"))
              /\ UNCHANGED <<pwbuf, pipe, plocal, p2h, h2p>>
         ELSE /\ h2p' = [h2p EXCEPT !.r = FALSE]
              /\ plocal' = "closed"
              /\ IF plocal = "open" /\ CloseFlush(pwbuf, p2h.r) # "ok"
                   THEN /\ Finish(Raise("BrokenPipeError"))
                        /\ p2h' = [p2h EXCEPT !.w = FALSE]
                        /\ UNCHANGED <<pwbuf, pipe>>
                   ELSE /\ p2h' = [p2h EXCEPT !.w = FALSE,
                                   !.buf = IF plocal = "open" THEN @ \o pwbuf ELSE @]
                        /\ pwbuf' = IF plocal = "open" THEN <<>> ELSE pwbuf
                        /\ pipe' = "None"
                        /\ ppc' = "term_wait"
                        /\ UNCHANGED <<pres, pwq, prd, prsz>>
    /\ UNCHANGED <<pop, pcall, nops, closed, procset, wrap>>
    /\ UNCHANGED <<helperVars, backend, proc, auth, err, errRead, histVars>>

\* terminate: self.proc.wait()
PTermWait ==
    /\ UNCHANGED pipeVars
    /\ UNCHANGED probeVars
    /\ UNCHANGED extVars
    /\ UNCHANGED altVars
    /\ UNCHANGED hobsVars
    /\ ppc = "term_wait"
    /\ proc \in {"exited", "killed"}
    /\ Finish(Ok(None))
    /\ UNCHANGED <<pop, pcall, pwbuf, nops, closed, pipe, procset, plocal, wrap>>
    /\ UNCHANGED <<helperVars, envVars, errRead, histVars>>


-----------------------------------------------------------------------------
(* The elevation program in front of the helper *)

\* the program takes the password and starts the helper entry point
SudoAccept ==
    /\ UNCHANGED pipeVars
    /\ UNCHANGED probeVars
    /\ UNCHANGED extVars
    /\ UNCHANGED altVars
    /\ UNCHANGED hobsVars
    /\ proc = "running" /\ auth = "pending"
    /\ auth' = "accepted"
    /\ hpc' = "boot"
    /\ UNCHANGED <<callerVars, hwq, hrd, hrsz, hcall, hres, tstate>>
    /\ UNCHANGED <<backend, proc, p2h, h2p, err, errRead, histVars>>

\* the program refuses the password; it may say so on its error stream
SudoReject ==
    /\ UNCHANGED pipeVars
    /\ UNCHANGED probeVars
    /\ UNCHANGED extVars
    /\ UNCHANGED altVars
    /\ UNCHANGED hobsVars
    /\ proc = "running" /\ auth = "pending"
    /\ auth' = "rejected"
    /\ \E says \in BOOLEAN :
         err' = IF says /\ err.w THEN [err EXCEPT !.buf = @ \o <<83>>] ELSE err
    /\ UNCHANGED <<callerVars, helperVars>>
    /\ UNCHANGED <<backend, proc, p2h, h2p, errRead, histVars>>

\* the program gives up and exits
SudoExit ==
    /\ UNCHANGED pipeVars
    /\ UNCHANGED probeVars
    /\ UNCHANGED extVars
    /\ UNCHANGED altVars
    /\ UNCHANGED hobsVars
    /\ proc = "running" /\ auth = "rejected"
    /\ proc' = "exited"
    /\ p2h' = Released(p2h)
    /\ h2p' = Hushed(h2p)
    /\ err' = Hushed(err)
    /\ UNCHANGED <<callerVars, helperVars>>
    /\ UNCHANGED <<backend, auth, errRead, histVars>>

-----------------------------------------------------------------------------
(* Helper: run_proxy_startup and SudoProxy.run *)

\* where run goes once the acknowledgement is written, with the "break" left out
AfterClosing_loop == "loop"

\* run: pipe.write(pickle.dumps("CLOSING")); break
AfterClosing == "fin"

\* the loop going round again on end-of-stream
OnEOF_loop == "loop"

\* run: "except EOFError: break"
OnEOF == "fin"

\* the helper's loop has ended: what it does from then on is one too many
Stray(what) ==
    \/ hStray
    \/ hend = "eof"
    \/ hend = "close" /\ what # "ack"

\* run_proxy_startup: posix writes "@" to the error stream; then proxy.run(pipe)
\* begins with pipe.write(b"READY")
HBoot ==
    /\ UNCHANGED pipeVars
    /\ UNCHANGED probeVars
    /\ UNCHANGED extVars
    /\ UNCHANGED altVars
    /\ hpc = "boot" /\ proc = "running"
    /\ err' = IF backend = "posix" /\ err.w THEN [err EXCEPT !.buf = @ \o <<64>>] ELSE err
    /\ hpc' = "ready_w"
    /\ hwq' = WriteChunks(ReadyMarker)
    /\ hlocal' = "open"
    /\ UNCHANGED <<hend, nAck, hStray, hwbuf, hclose>>
    /\ UNCHANGED <<callerVars, hrd, hrsz, hcall, hres, tstate>>
    /\ UNCHANGED <<backend, proc, auth, p2h, h2p, errRead, histVars>>

\* one _write of the running pipe.write(); a write nobody can read raises
\* BrokenPipeError, which run does not catch
HWrite ==
    /\ UNCHANGED pipeVars
    /\ UNCHANGED probeVars
    /\ UNCHANGED extVars
    /\ UNCHANGED <<nReq, nCalls, nRespRead>>
    /\ nResp' = IF hpc = "resp_w" /\ h2p.r /\ Len(hwq) % 2 = 1 THEN nResp + 1 ELSE nResp
    /\ hpc \in {"ready_w", "resp_w", "closing_w"} /\ proc = "running"
    /\ LET last == Len(hwq) = 1 IN
       IF ~h2p.r
         THEN /\ hpc' = IF hpc = "ready_w" THEN "exit" ELSE "fin"
              /\ hwq' = <<>>
              /\ hwbuf' = hwbuf \o Head(hwq)
              /\ UNCHANGED <<h2p, nReady, nAck>>
         ELSE /\ h2p' = [h2p EXCEPT !.buf = @ \o Flush(hwbuf \o Head(hwq))]
              /\ hwbuf' = Drop(hwbuf \o Head(hwq), Len(Flush(hwbuf \o Head(hwq))))
              /\ hwq' = Tail(hwq)
              /\ nReady' = IF last /\ hpc = "ready_w" THEN nReady + 1 ELSE nReady
              /\ nAck' = IF last /\ hpc = "closing_w" THEN nAck + 1 ELSE nAck
              /\ hpc' = IF ~last THEN hpc
                        ELSE IF hpc = "closing_w" THEN AfterClosing ELSE "loop"
    /\ hStray' = Stray(IF hpc = "closing_w" THEN "ack" ELSE "frame")
    /\ UNCHANGED <<hlocal, hend, hclose>>
    /\ UNCHANGED <<callerVars, hrd, hrsz, hcall, hres, tstate>>
    /\ UNCHANGED <<backend, proc, auth, p2h, err, errRead>>
    /\ UNCHANGED <<pwdWrites, nCloseSent, hFrames, hReadyLate, pGotReady, pEarly,
                   refState, expect, healthy>>

\* run: call = pickle.loads(pipe.read()); the close sentinel, a call, or a
\* frame that is neither
Decoded(data) ==
    \E call \in {Loads(data)} :
    IF call = VStr("CLOSE")
      THEN /\ hpc' = "closing_w" /\ hwq' = WriteChunks(ClosingMsg) /\ hcall' = hcall
           /\ hend' = IF hend = "none" THEN "close" ELSE hend
    ELSE IF call[1] = "tup" /\ Len(call[2]) = 2
      THEN /\ hpc' = "dispatch" /\ hwq' = <<>> /\ hcall' = call /\ hend' = hend
      ELSE /\ hpc' = "fin" /\ hwq' = <<>> /\ hcall' = hcall /\ hend' = hend

\* one read_stream.read(n) of the loop's pipe.read(); EOFError leaves the loop
HRead ==
    /\ UNCHANGED pipeVars
    /\ UNCHANGED probeVars
    /\ UNCHANGED extVars
    /\ hpc = "loop" /\ proc = "running"
    /\ IF hrd = "hdr"
         THEN /\ CanRead(p2h, 4)
              /\ \E r \in {ReadHdr(p2h)} :
                 /\ p2h' = r.s
                 /\ IF r.eof
                      THEN /\ hpc' = OnEOF
                           /\ hend' = IF hend = "none" THEN "eof" ELSE hend
                           /\ UNCHANGED <<hrd, hrsz, hwq, hcall, hFrames, hReadyLate>>
                      ELSE /\ hrd' = "body" /\ hrsz' = r.sz
                           /\ UNCHANGED <<hpc, hwq, hcall, hFrames, hReadyLate, hend>>
         ELSE /\ CanRead(p2h, hrsz)
              /\ \E r \in {ReadBody(p2h, hrsz)} :
                 /\ p2h' = r.s
                 /\ hrd' = "hdr" /\ hrsz' = 0
                 /\ IF r.eof
                      THEN /\ hpc' = OnEOF
                           /\ hend' = IF hend = "none" THEN "eof" ELSE hend
                           /\ UNCHANGED <<hwq, hcall, hFrames, hReadyLate>>
                      ELSE /\ Decoded(r.data)
                           /\ hFrames' = hFrames + 1
                           /\ hReadyLate' = (hReadyLate \/ nReady = 0)
    /\ nCalls' = IF hpc' = "dispatch" THEN nCalls + 1 ELSE nCalls
    /\ UNCHANGED <<nReq, nResp, nRespRead>>
    /\ hStray' = Stray("frame")
    /\ UNCHANGED <<hlocal, nAck, hwbuf, hclose>>
    /\ UNCHANGED <<callerVars, hres, tstate>>
    /\ UNCHANGED <<backend, proc, auth, h2p, err, errRead>>
    /\ UNCHANGED <<pwdWrites, nCloseSent, nReady, pGotReady, pEarly, refState,
                   expect, healthy>>

\* run: methname, args = call; getattr(self.target, methname)(*args)
\* the Result Envelope written twice
Reply_twice(out) ==
    WriteChunks(Dumps(ResultEnvelope(out))) \o WriteChunks(Dumps(ResultEnvelope(out)))

\* run: pipe.write(pickle.dumps((True, res))) / pipe.write(pickle.dumps((False, e)))
Reply(out) == WriteChunks(Dumps(ResultEnvelope(out)))

Dispatch(call, t) ==
    IF call[2][1][1] # "str" \/ call[2][2][1] # "tup"
      THEN Raised(VExc("TypeError", 0), t)
      ELSE TargetCall(call[2][1][2], call[2][2][2], t)

\* run: the method is invoked; a fault derived from Exception is answered with
\* (False, e), a result with (True, res); anything else leaves run through "finally"
HDispatch ==
    /\ UNCHANGED pipeVars
    /\ UNCHANGED probeVars
    /\ UNCHANGED extVars
    /\ UNCHANGED altVars
    /\ hpc = "dispatch" /\ proc = "running"
    /\ \E out \in {Dispatch(hcall, tstate)} :
       /\ tstate' = out.t
       /\ hres' = out
       /\ IF out.kind = "hang"
            THEN hpc' = "busy" /\ hwq' = <<>>
          ELSE IF out.kind = "raise" /\ ~Catches(out.val)
            THEN hpc' = "fin" /\ hwq' = <<>>
            ELSE hpc' = "resp_w" /\ hwq' = Reply(out)
    /\ hStray' = Stray("call")
    /\ UNCHANGED <<hlocal, hend, nAck, hwbuf, hclose>>
    /\ UNCHANGED <<callerVars, hrd, hrsz, hcall>>
    /\ UNCHANGED <<envVars, errRead, histVars>>

\* run: "finally: pipe.close()": StdPipe.close closes the read stream, then the
\* write stream.  The elevation program the helper runs under may hold the same
\* descriptors until the process exits.
HFin ==
    /\ UNCHANGED pipeVars
    /\ UNCHANGED probeVars
    /\ UNCHANGED extVars
    /\ UNCHANGED altVars
    /\ hpc = "fin" /\ proc = "running"
    /\ hclose' = CloseFlush(hwbuf, h2p.r)
    /\ hwbuf' = IF hclose' = "ok" THEN <<>> ELSE hwbuf
    /\ \E held \in BOOLEAN :
         /\ p2h' = IF held THEN p2h ELSE Released(p2h)
         /\ h2p' = IF held THEN [h2p EXCEPT !.buf = IF h2p.r THEN @ \o hwbuf ELSE @]
                            ELSE Hushed([h2p EXCEPT !.buf = IF h2p.r THEN @ \o hwbuf ELSE @])
    /\ hpc' = "exit"
    /\ hlocal' = "closed"
    /\ UNCHANGED <<hend, nAck, hStray>>
    /\ UNCHANGED <<callerVars, hwq, hrd, hrsz, hcall, hres, tstate>>
    /\ UNCHANGED <<backend, proc, auth, err, errRead, histVars>>

\* run_proxy_startup: sys.exit(0), or the interpreter dying of an uncaught error
HExit ==
    /\ UNCHANGED pipeVars
    /\ UNCHANGED probeVars
    /\ UNCHANGED extVars
    /\ UNCHANGED altVars
    /\ UNCHANGED hobsVars
    /\ hpc = "exit" /\ proc = "running"
    /\ proc' = "exited"
    /\ hpc' = "gone"
    /\ p2h' = Released(p2h)
    /\ h2p' = Hushed(h2p)
    /\ err' = Hushed(err)
    /\ UNCHANGED <<callerVars, hwq, hrd, hrsz, hcall, hres, tstate>>
    /\ UNCHANGED <<backend, auth, errRead, histVars>>

-----------------------------------------------------------------------------
(* Two threads calling through one proxy without a lock.  The helper's     *)
(* side is its loop: pipe.read(), then the answer to what it read.         *)

Threads == {1, 2}

\* the helper answers a request twice
Served_twice(P) == <<P, P>>

\* run: one pipe.write per pipe.read; the sample method returns its argument
Served(P) == <<P>>

\* the answers the helper has written, in order
RECURSIVE Replies(_)
Replies(frames) ==
    IF frames = <<>> THEN <<>> ELSE Served(Head(frames)) \o Replies(Tail(frames))

RaceRest ==
    /\ rth = [t \in Threads |-> [pc |-> "idle", wq |-> <<>>, pay |-> <<>>, got |-> <<>>]]
    /\ rnext = 0
    /\ rover = FALSE

\* wrapper: pipe.write(pickle.dumps(call)) is entered by a thread
TCall(t) ==
    /\ UNCHANGED <<pipeVars, coreVars, wpipe, fifo>>
    /\ rth[t].pc = "idle"
    /\ \E P \in Payloads :
         rth' = [rth EXCEPT ![t] = [pc |-> "write", wq |-> WriteChunks(P), pay |-> P,
                                    got |-> <<>>]]
    /\ rover' = (rover \/ \E u \in Threads \ {t} : rth[u].pc \in {"write", "read"})
    /\ UNCHANGED rnext

\* one _write of the thread's write(): write_stream.write(data); flush()
TChunk(t) ==
    /\ UNCHANGED coreVars
    /\ rth[t].pc = "write"
    /\ fwire' = [fwire EXCEPT !.buf = @ \o Head(rth[t].wq)]
    /\ rth' = [rth EXCEPT ![t].wq = Tail(@),
                          ![t].pc = IF Len(rth[t].wq) = 1 THEN "read" ELSE "write"]
    /\ UNCHANGED <<fwq, fsent, frecvd, frd, frsz, flast, ftrunc, rnext, rover, wpipe, fifo>>

\* wrapper: pickle.loads(pipe.read()): the thread takes the next answer
TRead(t) ==
    /\ UNCHANGED <<pipeVars, coreVars, wpipe, fifo>>
    /\ rth[t].pc = "read"
    /\ rnext < Len(Replies(frecvd))
    /\ rth' = [rth EXCEPT ![t].pc = "done", ![t].got = Replies(frecvd)[rnext + 1]]
    /\ rnext' = rnext + 1
    /\ UNCHANGED rover

RaceNext ==
    \/ \E t \in Threads : TCall(t)
    \/ \E t \in Threads : TChunk(t)
    \/ \E t \in Threads : TRead(t)
    \/ FReadHdr
    \/ FReadBody

-----------------------------------------------------------------------------
(* The Windows named pipe: the endpoint that created the pipe ("server")   *)
(* and the endpoint that opens its name ("client")                         *)

\* Win32Pipe(): CreateNamedPipeA, connected = False; the client is not made yet
WinRest ==
    wpipe = [e \in {"server", "client"} |->
                [made |-> e = "server", connected |-> FALSE, waits |-> 0, ios |-> 0,
                 early |-> FALSE, inbox |-> 0]]

\* check_connection that does nothing
check_connection_skip(p) == p

\* check_connection: "if not self.connected: ConnectNamedPipe(...); self.connected = True"
check_connection(p) ==
    IF p.connected THEN p ELSE [p EXCEPT !.connected = TRUE, !.waits = @ + 1]

\* Win32Pipe(pipename): CreateFileA on the existing name, connected = True
WOpen ==
    /\ UNCHANGED <<pipeVars, coreVars, raceVars, fifo>>
    /\ ~wpipe["client"].made
    /\ wpipe' = [wpipe EXCEPT !["client"].made = TRUE, !["client"].connected = TRUE]

\* _write: check_connection(), then WriteFile: the data waits at the other
\* endpoint.  ConnectNamedPipe returns when the client has opened the name.
WWrite(e) ==
    /\ UNCHANGED <<pipeVars, coreVars, raceVars, fifo>>
    /\ wpipe[e].made /\ wpipe[e].ios < MaxIo
    /\ check_connection(wpipe[e]).waits > wpipe[e].waits => wpipe["client"].made
    /\ \E o \in {"server", "client"} \ {e} :
         wpipe' = [wpipe EXCEPT ![e] = [check_connection(wpipe[e]) EXCEPT
                       !.ios = @ + 1,
                       !.early = @ \/ ~check_connection(wpipe[e]).connected],
                                ![o].inbox = @ + 1]

\* _read: check_connection(), then ReadFile, which returns when data waits
WRead(e) ==
    /\ UNCHANGED <<pipeVars, coreVars, raceVars, fifo>>
    /\ wpipe[e].made /\ wpipe[e].ios < MaxIo /\ wpipe[e].inbox > 0
    /\ check_connection(wpipe[e]).waits > wpipe[e].waits => wpipe["client"].made
    /\ wpipe' = [wpipe EXCEPT ![e] = [check_connection(wpipe[e]) EXCEPT
                     !.ios = @ + 1, !.inbox = @ - 1,
                     !.early = @ \/ ~check_connection(wpipe[e]).connected]]

WinNext ==
    \/ WOpen
    \/ \E e \in {"server", "client"} : WWrite(e)
    \/ \E e \in {"server", "client"} : WRead(e)

-----------------------------------------------------------------------------
(* The POSIX FIFO pair: the endpoint that made the FIFOs ("master", reads   *)
(* tdir/master, writes tdir/slave) and the one made by connect() ("slave") *)

\* __init__: mkdtemp, two mkfifo, rfd = wfd = None; connect(): the same names swapped
FifoRest ==
    fifo = [names |-> {"dir", "master", "slave"},
            ep |-> [e \in {"master", "slave"} |->
                      [pc |-> "new", has |-> {}, want |-> "none", raised |-> FALSE]],
            stolen |-> {}]

\* both endpoints open their read FIFO first
Order_same(e) == <<e, CHOOSE f \in {"master", "slave"} : f # e>>

\* _open: the endpoint whose rnm ends with "master" opens rnm then wnm, the
\* other one wnm then rnm
Order(e) ==
    IF e = "master" THEN <<e, CHOOSE f \in {"master", "slave"} : f # e>>
                    ELSE <<CHOOSE f \in {"master", "slave"} : f # e, e>>

\* _open is entered: the first os.open is waiting for the other end
FBegin(e) ==
    /\ UNCHANGED <<pipeVars, coreVars, raceVars, wpipe>>
    /\ fifo.ep[e].pc = "new" /\ Order(e)[1] \in fifo.names
    /\ fifo' = [fifo EXCEPT !.ep[e].pc = "o1", !.ep[e].want = Order(e)[1]]

\* an os.open of _open returns: the other endpoint is in open() on the same
\* FIFO or has opened it since; the next os.open, or the unlink, follows
FOpened(e) ==
    /\ UNCHANGED <<pipeVars, coreVars, raceVars, wpipe>>
    /\ fifo.ep[e].pc \in {"o1", "o2"}
    /\ \E o \in {"master", "slave"} \ {e} :
         \/ fifo.ep[o].want = fifo.ep[e].want
         \/ fifo.ep[e].want \in fifo.ep[o].has
    /\ fifo' = [fifo EXCEPT
                   !.ep[e].has = @ \cup {fifo.ep[e].want},
                   !.ep[e].want = IF fifo.ep[e].pc = "o1" THEN Order(e)[2] ELSE "none",
                   !.ep[e].pc = IF fifo.ep[e].pc = "o1" THEN "o2" ELSE "un"]

\* _open: os.unlink(self.wnm)
FUnlink(e) ==
    /\ UNCHANGED <<pipeVars, coreVars, raceVars, wpipe>>
    /\ fifo.ep[e].pc = "un"
    /\ fifo' = [fifo EXCEPT
                   !.names = @ \ {f \in {"master", "slave"} : f # e},
                   !.ep[e].raised = \A f \in {"master", "slave"} : f # e => f \notin fifo.names,
                   !.ep[e].pc = "open"]

\* close(): with descriptors open, close them, unlink wnm if it is a regular
\* file (a FIFO is not), remove tdir when it is empty and tolerate its being
\* gone; without descriptors, nothing
FClose(e) ==
    /\ UNCHANGED <<pipeVars, coreVars, raceVars, wpipe>>
    /\ fifo.ep[e].pc \in {"new", "open"}
    /\ fifo' = [fifo EXCEPT
                   !.names = IF fifo.ep[e].pc = "open" /\ fifo.names = {"dir"} THEN {} ELSE @,
                   !.ep[e].pc = "closed"]

\* a third process of the same user opens a FIFO name that still exists
XOpen ==
    /\ UNCHANGED <<pipeVars, coreVars, raceVars, wpipe>>
    /\ \E f \in (fifo.names \cap {"master", "slave"}) \ fifo.stolen :
         fifo' = [fifo EXCEPT !.stolen = @ \cup {f}]

FifoStep ==
    \/ \E e \in {"master", "slave"} : FOpened(e)
    \/ \E e \in {"master", "slave"} : FUnlink(e)

FifoNext ==
    \/ \E e \in {"master", "slave"} : FBegin(e)
    \/ FifoStep
    \/ \E e \in {"master", "slave"} : FClose(e)
    \/ XOpen

-----------------------------------------------------------------------------
(* Launchers and privilege queries as functions of what the machine holds  *)

\* the elevation programs the launchers look for
Programs == {"pkexec", "gksudo", "kdesudo", "cocoasudo", "sudo"}

Launchers == {"posix", "sudo_posix", "sudo_unix"}

Platforms == {"win32", "posix", "sudo_posix"}

\* [sys.executable, "-c", "import runas; runas.run_proxy_startup()"] + args
HelperExe == <<"python -c run_proxy_startup">>

\* find_exe(name): [exe] when a directory of PATH holds the program, else None
find_exe(name, installed) == IF name \in installed THEN <<name>> ELSE <<>>

\* the first program of the list that find_exe finds
RECURSIVE FirstFound(_, _)
FirstFound(names, installed) ==
    IF names = <<>> THEN <<>>
    ELSE IF find_exe(Head(names), installed) # <<>>
      THEN find_exe(Head(names), installed)
      ELSE FirstFound(Tail(names), installed)

\* the programs a launcher looks for, in its order
Wanted(launcher, display) ==
    IF launcher = "sudo_unix" /\ display
      THEN <<"pkexec", "gksudo", "kdesudo", "cocoasudo", "sudo">>
      ELSE <<"sudo">>

Launched(exe) == [err |-> "none", exe |-> exe]
LaunchError(msg) == [err |-> msg, exe |-> <<>>]

\* spawn_sudo up to subprocess.Popen(exe): the command line it starts, or
\* the error it raises
spawn_sudo(launcher, installed, display) ==
    LET sudo == FirstFound(Wanted(launcher, display), installed) IN
    IF launcher = "sudo_unix"
      THEN \* "if sudo is None: sudo = []"
           Launched(sudo \o HelperExe)
      ELSE IF sudo = <<>>
        THEN LaunchError("RuntimeError: no sudo found")
        ELSE Launched(sudo \o HelperExe)

\* GetTokenInformation succeeded
NoError == 0
\* a failure of GetTokenInformation other than the two can_get_root names
ERROR_OTHER == 5
ERROR_NO_SUCH_LOGON_SESSION == 1312
ERROR_PRIVILEGE_NOT_HELD == 1314

LinkedErrors == {NoError, ERROR_OTHER, ERROR_NO_SUCH_LOGON_SESSION, ERROR_PRIVILEGE_NOT_HELD}

\* only the first of the two errors is taken for a missing linked token
NoLinkedToken_one(e) == e = ERROR_NO_SUCH_LOGON_SESSION

\* can_get_root: the errors of the linked-token query that mean "no linked token"
NoLinkedToken(e) == e \in {ERROR_NO_SUCH_LOGON_SESSION, ERROR_PRIVILEGE_NOT_HELD}

Answer(b) == [err |-> NoError, val |-> b]
WindowsError(e) == [err |-> e, val |-> FALSE]

\* can_get_root(): on POSIX "return True"; on Windows the direct token, then
\* the linked token
can_get_root(platform, tok) ==
    IF platform # "win32" THEN Answer(TRUE)
    ELSE IF tok.direct THEN Answer(TRUE)
    ELSE IF tok.lerr # NoError
      THEN IF NoLinkedToken(tok.lerr) THEN Answer(FALSE) ELSE WindowsError(tok.lerr)
      ELSE Answer(tok.ladmin)

\* PATH and DISPLAY as a launcher finds them
PathInputs ==
    [kind : {"path"}, installed : SUBSET Programs, display : BOOLEAN]

\* the process token as can_get_root finds it: a linked token that cannot be
\* queried carries no identity
TokenInputs ==
    {t \in [kind : {"token"}, direct : BOOLEAN, lerr : LinkedErrors, ladmin : BOOLEAN] :
        t.lerr # NoError => ~t.ladmin}

NoProbe == [kind |-> "none"]

ProbeRest == qin = NoProbe /\ qop = "none" /\ qout = NoProbe

ProbeInit == qin \in PathInputs \cup TokenInputs /\ qop = "none" /\ qout = NoProbe

restVars == <<pipeVars, callerVars, helperVars, envVars, histVars, errRead, hobsVars,
              altVars, extVars>>

\* spawn_sudo(...) on one of the launchers
QSpawn ==
    /\ UNCHANGED restVars
    /\ qop = "none" /\ qin.kind = "path"
    /\ \E launcher \in Launchers :
         /\ qop' = launcher
         /\ qout' = spawn_sudo(launcher, qin.installed, qin.display)
    /\ UNCHANGED qin

\* can_get_root() on one of the platforms
QCanGetRoot ==
    /\ UNCHANGED restVars
    /\ qop = "none" /\ qin.kind = "token"
    /\ \E platform \in Platforms :
         /\ qop' = platform
         /\ qout' = can_get_root(platform, qin)
    /\ UNCHANGED qin

ProbeNext ==
    \/ QSpawn
    \/ QCanGetRoot

-----------------------------------------------------------------------------
(* Specifications *)

SessCore ==
    /\ backend \in {"sudo_posix", "posix"}
    /\ ppc = "idle" /\ pop = "new" /\ pcall = NoCall
    /\ pwq = <<>> /\ pwbuf = <<>> /\ prd = "hdr" /\ prsz = 0
    /\ pres = NoResult /\ nops = 0
    /\ closed = FALSE /\ pipe = "None" /\ procset = FALSE /\ plocal = "none"
    /\ wrap = [m \in Names |-> "none"]
    /\ proc = "none" /\ auth = "none"
    /\ hpc = "none" /\ hwq = <<>> /\ hrd = "hdr" /\ hrsz = 0
    /\ hcall = None /\ hres = NoOut /\ tstate = 0
    /\ p2h = NewStream /\ h2p = NewStream /\ err = NewStream
    /\ pwdWrites = 0 /\ nCloseSent = 0 /\ nReady = 0 /\ hFrames = 0
    /\ hReadyLate = FALSE /\ pGotReady = FALSE /\ pEarly = FALSE
    /\ refState = 0
    /\ expect = [live |-> FALSE, out |-> NoOut, prev |-> "none", peer |-> "none",
                 eof |-> FALSE]
    /\ healthy = FALSE
    /\ errRead = <<-1>>
    /\ hlocal = "none" /\ hend = "none" /\ nAck = 0 /\ hStray = FALSE
    /\ hwbuf = <<>> /\ hclose = "none"
    /\ nReq = 0 /\ nCalls = 0 /\ nResp = 0 /\ nRespRead = 0
    /\ RaceRest
    /\ WinRest
    /\ FifoRest

SessInit == SessCore /\ ProbeRest

\* the session at rest, for the specification of the transport alone
SessRest == SessInit /\ backend = "posix"

CallerStep ==
    \/ PSpawnErr
    \/ PPoll
    \/ PWrite
    \/ PRead
    \/ PTermClose
    \/ PTermWait

HelperNext ==
    \/ HBoot
    \/ HWrite
    \/ HRead
    \/ HDispatch
    \/ HFin
    \/ HExit

Init == SessInit /\ PipeInit

Next ==
    \/ PStartNoSudo
    \/ PStart
    \/ PCall
    \/ PClose
    \/ PTerminate
    \/ CallerStep
    \/ HelperNext
    \/ SudoAccept
    \/ SudoReject
    \/ SudoExit

Spec == Init /\ [][Next]_vars

\* a blocking call returns once it can, a running process takes its next step,
\* an elevation program that refused the password exits
FairSpec ==
    /\ Spec
    /\ WF_vars(CallerStep)
    /\ WF_vars(HelperNext)
    /\ WF_vars(SudoExit)

\* the caller's process ends without close() or terminate(): the system
\* closes its ends of the helper's streams, written bytes stay readable and
\* bytes not yet written are lost
PVanish ==
    /\ UNCHANGED pipeVars
    /\ UNCHANGED probeVars
    /\ UNCHANGED extVars
    /\ UNCHANGED altVars
    /\ UNCHANGED hobsVars
    /\ ppc # "vanished" /\ proc = "running"
    /\ ppc' = "vanished"
    /\ p2h' = Hushed(p2h) /\ h2p' = Released(h2p) /\ err' = Released(err)
    /\ UNCHANGED <<pop, pcall, pwq, pwbuf, prd, prsz, pres, nops, closed,
                   pipe, procset, plocal, wrap>>
    /\ UNCHANGED <<helperVars, backend, proc, auth, histVars, errRead>>

\* the caller's blocked pipe.read() is interrupted (KeyboardInterrupt, a
\* timeout signal) while the helper is inside a method that does not return
PInterrupt ==
    /\ UNCHANGED pipeVars
    /\ UNCHANGED probeVars
    /\ UNCHANGED extVars
    /\ UNCHANGED altVars
    /\ UNCHANGED hobsVars
    /\ ppc = "call_read" /\ hpc = "busy"
    /\ Finish(Raise("KeyboardInterrupt"))
    /\ UNCHANGED <<pop, pcall, pwbuf, nops, closed, pipe, procset, plocal, wrap>>
    /\ UNCHANGED <<helperVars, envVars, histVars, errRead>>

NextAbort ==
    \/ Next
    \/ PInterrupt

\* the session with a caller that gives up waiting for an answer
SpecAbort == Init /\ [][NextAbort]_vars

FairAbort ==
    /\ SpecAbort
    /\ WF_vars(CallerStep)
    /\ WF_vars(HelperNext)
    /\ WF_vars(SudoExit)

NextVanish ==
    \/ Next
    \/ PVanish

\* the session with a caller that may disappear
SpecVanish == Init /\ [][NextVanish]_vars

InitPipe == SessRest /\ PipeInit

\* the launchers and the privilege query, each applied to what it may find
InitProbe == SessCore /\ backend = "posix" /\ PipeInit /\ ProbeInit

SpecProbe == InitProbe /\ [][ProbeNext]_vars

\* the endpoints of the FIFO pair
SpecFifo == InitPipe /\ [][FifoNext]_vars

\* an os.open whose other end is there returns, and _open goes on
FairFifo == SpecFifo /\ WF_vars(FifoStep)

\* the endpoints of the named pipe
SpecWin == InitPipe /\ [][WinNext]_vars

\* two threads on one proxy, the helper answering
SpecRace == InitPipe /\ [][RaceNext]_vars

\* the transport over an unbuffered conduit
SpecRaw == InitPipe /\ [][RawNext]_vars

NextPipe == PipeNext

SpecPipe == InitPipe /\ [][NextPipe]_vars


-----------------------------------------------------------------------------
(* Properties *)

IsPrefix(a, b) == Len(a) <= Len(b) /\ a = SubSeq(b, 1, Len(a))

\* the payloads whose write() has been entered
Begun == fsent \o (IF fwq = <<>> THEN <<>> ELSE <<fwq[Len(fwq)]>>)

CallDone == ppc = "idle" /\ pop = "call"

\* C1: a proxied call on a live session (started, no close sentinel written,
\* helper not told to exit, stand-in bound to the session's pipe) to a method
\* that returns yields the value direct invocation of the same sequence of
\* calls on the target yields, and leaves the helper's target in the same state.
C1_RoundTrip ==
    (CallDone /\ expect.live /\ expect.out.kind = "return")
        => (pres = Ok(expect.out.val) /\ tstate = refState)

C1_Witness ==
    /\ CallDone /\ expect.live /\ nops = 3
    /\ pcall = <<"bump", <<2>>>>
    /\ pres = Ok(VInt(0))

C3_FrameIntegrity ==
    /\ IsPrefix(frecvd, Begun)
    /\ (frd = "body" /\ Len(frecvd) < Len(Begun))
          => frsz = Len(Begun[Len(frecvd) + 1])
    /\ (fwire.buf = <<>> /\ fwq = <<>> /\ frd = "idle" /\ ~ftrunc)
          => frecvd = fsent

C3_Witness ==
    /\ Len(frecvd) = 2 /\ frecvd = fsent
    /\ frecvd[1] = <<>> /\ frecvd[2] = <<1, 0>>

\* C4: read() reports end-of-stream only when the peer has closed and no
\* complete frame is left unread (so a complete frame of length 0 is data),
\* and on a closed conduit returns nothing but completely written payloads.
C4_TruncatedIsEOF ==
    /\ flast = "eof" => (~fwire.w /\ Len(frecvd) = Len(fsent))
    /\ ~fwire.w => IsPrefix(frecvd, fsent)
    /\ (~fwire.w /\ flast = "data") => frecvd[Len(frecvd)] = fsent[Len(frecvd)]

C4_Witness ==
    /\ ftrunc /\ flast = "eof" /\ fwire.buf = <<>>
    /\ frecvd = << <<>> >> /\ fsent = << <<>> >>

\* C5: terminate() entered right after a close() that returned never writes
\* to the channel again (one sentinel in all), and when it returns it has not
\* raised, the caller's streams are closed, pipe is None and the process has exited.
C5_TerminateAfterClose ==
    (pop = "terminate" /\ expect.prev = "close")
        => /\ ppc \in {"term_close", "term_wait", "idle"}
           /\ nCloseSent = 1
           /\ ppc = "idle"
                => /\ pres = Ok(None)
                   /\ plocal = "closed" /\ pipe = "None"
                   /\ ~p2h.w /\ ~h2p.r
                   /\ proc = "exited" /\ hpc = "gone"

C5_Witness ==
    /\ pop = "terminate" /\ expect.prev = "close"
    /\ ppc = "idle" /\ pres = Ok(None)

\* C6 as stated: a second close(), entered after the first returned and the
\* helper closed its transport, does not raise.
C6_CloseTwice ==
    (pop = "close" /\ ppc = "idle" /\ expect.prev = "close"
        /\ expect.peer \in {"exit", "gone"})
        => pres.st = "ok"

\* C7: with the credentials accepted start() returns; a zero-argument query on
\* the live session returns the target's value; terminate() on the live session
\* returns with the helper gone and the process exited.
C7_HappyPath ==
    /\ (pop = "start" /\ ppc # "idle" /\ auth = "accepted")
          ~> (pop = "start" /\ ppc = "idle" /\ pres = Ok(None))
    /\ (pop = "call" /\ ppc # "idle" /\ expect.live /\ pcall[1] = "is_root")
          ~> (CallDone /\ pres = Ok(VBool(TRUE)))
    /\ (pop = "terminate" /\ ppc # "idle" /\ expect.live)
          ~> (pop = "terminate" /\ ppc = "idle" /\ pres = Ok(None)
                /\ hpc = "gone" /\ proc = "exited")

C7_Witness ==
    /\ pop = "terminate" /\ ppc = "idle" /\ pres = Ok(None) /\ expect.live
    /\ pcall = <<"is_root", <<>>>> /\ hFrames = 2
    /\ hpc = "gone" /\ proc = "exited"

\* C8: once spawn_sudo has read anything but "@" from the error stream (or
\* nothing, the stream being closed), the launch has failed with "wrong
\* password", the process is not running and no helper lives, the proxy holds
\* neither process nor pipe, and the password was written once.
C8_WrongCredentials ==
    (errRead # <<-1>> /\ errRead # <<64>>)
        => /\ pop = "start" => (ppc = "idle" /\ pres = Raise("RuntimeError: wrong password"))
           /\ proc \in {"killed", "exited"}
           /\ hpc \in {"none", "gone"}
           /\ pipe = "None" /\ ~procset /\ plocal = "none"
           /\ ~p2h.w /\ ~h2p.r
           /\ pwdWrites = 1

C8_Witness ==
    /\ errRead = <<83>> /\ pop = "start" /\ proc = "killed"

\* C9 as stated: a start() that finds the process exited, or reads anything
\* but READY, fails with the helper-failed-to-start error and has closed the
\* caller's channel when it returns.
C9_StartFailure ==
    (pop = "start" /\ ppc = "idle" /\ procset /\ ~pGotReady)
        => /\ pres \in {Raise("RuntimeError: failed to spawn helper app"),
                        Raise("RuntimeError: sudo helper process terminated unexpectedly")}
           /\ plocal = "closed"

\* C10: the helper writes READY once, as the first bytes it puts on the
\* channel and before it reads a frame; no byte of an envelope reaches the
\* channel before start() has read READY.
C10_ReadyFirst ==
    /\ nReady <= 1
    /\ ~hReadyLate
    /\ hpc \in {"loop", "dispatch", "resp_w", "closing_w"} => nReady = 1
    /\ nReady = 0 => IsPrefix(h2p.buf, PackI(Len(READY)) \o READY)
    /\ ~pEarly
    /\ p2h.buf # <<>> => pGotReady

C10_Witness ==
    /\ nReady = 1 /\ pGotReady /\ hFrames = 1 /\ hpc = "dispatch"

\* C11: once the helper has read the close sentinel it is writing the
\* acknowledgement or has left its loop; it has written one acknowledgement
\* when it leaves, its transport is closed when it exits, and it reads no
\* frame and invokes no method from then on.
C11_CloseEndsLoop ==
    hend = "close"
        => /\ hpc \in {"closing_w", "fin", "exit", "gone"}
           /\ ~hStray
           /\ nAck = (IF hpc = "closing_w" THEN 0 ELSE 1)
           /\ hpc \in {"exit", "gone"} => hlocal = "closed"

C11_Witness ==
    /\ hend = "close" /\ hpc = "gone" /\ nAck = 1 /\ hlocal = "closed"
    /\ hFrames = 2
\* C12: asking the proxy for a name the target does not have fails in the
\* caller with AttributeError, leaves the helper of a healthy session in its
\* loop, and the call after it on a live session is served.
C12_UnknownMethod ==
    /\ (CallDone /\ pcall[1] \notin Methods)
          => (pres = Raise("AttributeError") /\ (healthy => hpc = "loop"))
    /\ (CallDone /\ expect.live /\ expect.prev = "unknown"
            /\ expect.out.kind = "return")
          => pres = Ok(expect.out.val)

C12_Witness ==
    /\ CallDone /\ expect.live /\ expect.prev = "unknown"
    /\ pcall[1] = "is_root" /\ pres = Ok(VBool(TRUE))
\* C13: when the helper has resolved and invoked a call whose method name
\* begins with "_", the outcome it is about to report is a failure.
C13_ReservedRejected ==
    (hpc = "resp_w" /\ hcall # None /\ hcall[2][1] \in {VStr(n) : n \in Reserved})
        => hres.kind = "raise"

\* C14: once the helper has read end-of-stream on its input it has left its
\* loop, it writes no frame, reads no frame and invokes no method from then
\* on, and its transport is closed when the process exits.
C14_EOFEndsLoop ==
    hend = "eof"
        => /\ hpc \in {"fin", "exit", "gone"}
           /\ ~hStray
           /\ hpc \in {"exit", "gone"} => hlocal = "closed"

C14_Witness ==
    /\ hend = "eof" /\ hpc = "gone" /\ hlocal = "closed"
    /\ hFrames = 1 /\ nAck = 0
\* C15 as stated: a close() of the transport that follows a failed write does
\* not raise: the helper's pipe.close() after its loop, and the caller's
\* pipe.close() in terminate().
C15_CloseSafe ==
    /\ hlocal = "closed" => hclose = "ok"
    /\ (pop = "terminate" /\ ppc = "idle" /\ plocal = "closed")
          => pres # Raise("BrokenPipeError")
\* C16 as stated: read() on a conduit that delivers a frame in pieces reports
\* end-of-stream only when the writer's end is closed, and the frames it
\* returned are the frames written, in order.
C16_WholeFrame ==
    /\ flast = "eof" => ~fwire.w
    /\ flast = "data" => IsPrefix(frecvd, fsent \o (IF fwq = <<>> THEN <<>> ELSE <<fwq[Len(fwq)]>>))
\* C17 as stated: terminate() entered while the helper is inside a method
\* that has not answered returns, with the helper's process gone.
C17_TerminateAborts ==
    (pop = "terminate" /\ ppc # "idle" /\ hpc = "busy")
        ~> (pop = "terminate" /\ ppc = "idle" /\ proc \in {"exited", "killed"})
\* C18 as stated: a launcher that finds none of the elevation programs it
\* looks for raises the no-elevation error and starts nothing, and whatever
\* a launcher starts has an elevation program in front of the helper.
C18_NoElevationFails ==
    (qin.kind = "path" /\ qop \in Launchers)
        => /\ FirstFound(Wanted(qop, qin.display), qin.installed) = <<>>
                => qout = LaunchError("RuntimeError: no sudo found")
           /\ qout.exe # <<>> => Head(qout.exe) \in Programs

\* C19: on Windows can_get_root() returns true exactly when the direct token
\* or the linked token carries the administrators identity, and returns false
\* without raising when the linked-token query fails with no-such-logon-session
\* or privilege-not-held; on POSIX it returns true.
C19_CanGetRoot ==
    (qin.kind = "token" /\ qop \in Platforms)
        => IF qop = "win32"
             THEN /\ (qout = Answer(TRUE)) <=> (qin.direct \/ qin.ladmin)
                  /\ (~qin.direct /\ qin.lerr \in {ERROR_NO_SUCH_LOGON_SESSION,
                                                    ERROR_PRIVILEGE_NOT_HELD})
                        => qout = Answer(FALSE)
             ELSE qout = Answer(TRUE)

C19_Witness ==
    /\ qin.kind = "token" /\ qop = "win32"
    /\ ~qin.direct /\ qin.lerr = ERROR_PRIVILEGE_NOT_HELD
    /\ qout = Answer(FALSE)
\* C20: the helper has written one Result Envelope for every Call Envelope
\* it read, or is about to, and has answered them all when it reads again;
\* the caller has read no more responses than were written, and when a call
\* writes its request no earlier response is unread or still to come, so the
\* response the call reads is the one to its own request.
C20_Alternation ==
    /\ nResp <= nCalls /\ nCalls <= nResp + 1
    /\ nCalls <= nReq /\ nRespRead <= nResp
    /\ hpc = "loop" => nResp = nCalls
    /\ ppc = "call_write"
          => (nRespRead = nResp /\ h2p.buf = <<>> /\ hpc \notin {"dispatch", "resp_w"})
    /\ (CallDone /\ expect.live /\ expect.out.kind = "return")
          => (nRespRead = nReq /\ nResp = nReq /\ pres = Ok(expect.out.val))

C20_Witness ==
    /\ CallDone /\ expect.live /\ expect.prev = "fault"
    /\ nReq = 2 /\ nCalls = 2 /\ nResp = 2 /\ nRespRead = 2
    /\ pres = Ok(expect.out.val)
\* C21: a frame reaches the helper that no thread wrote, or a thread returns
\* with the answer to a request it did not make, only when the two calls
\* overlapped; both happen.
C21_UnsafeConcurrently ==
    (\/ \E i \in 1..Len(frecvd) : \A t \in Threads : frecvd[i] # rth[t].pay
     \/ \E t \in Threads : rth[t].pc = "done" /\ rth[t].got # rth[t].pay)
        => rover

\* the headers of the two frames went out before either body, the helper
\* took a header for a body, and a thread came back with the other's answer
C21_Witness ==
    /\ rover
    /\ \E i \in 1..Len(frecvd) : \A t \in Threads : frecvd[i] # rth[t].pay
    /\ \E t \in Threads : rth[t].pc = "done" /\ rth[t].got # rth[t].pay
\* C22: when a write() has returned nothing of the frame is left in the
\* writer's stream, and the two sides are never both waiting in read() with
\* both conduits empty.
C22_FlushedBeforeRead ==
    /\ ppc \in {"start_read", "call_read", "close_read"} => pwbuf = <<>>
    /\ hpc = "loop" => hwbuf = <<>>
    /\ ~(/\ ppc \in {"call_read", "close_read"} /\ prd = "hdr" /\ h2p.buf = <<>>
          /\ hpc = "loop" /\ hrd = "hdr" /\ p2h.buf = <<>>
          /\ proc = "running")

C22_Witness ==
    /\ ppc = "call_read" /\ prd = "hdr" /\ pwbuf = <<>>
    /\ hpc = "loop" /\ hwbuf = <<>> /\ nResp = nReq /\ nReq = 1
    /\ Len(h2p.buf) > 4
\* C23: the closed flag is false at construction, never goes from true to
\* false, and becomes true only in close(), after the sentinel was written,
\* on reading the frame that is the acknowledgement.
C23_NeverReopened ==
    /\ ~closed
    /\ [][(closed => closed')
           /\ (closed' # closed
                 => (/\ ppc = "close_read" /\ prd = "body" /\ nCloseSent >= 1
                     /\ Len(h2p.buf) >= prsz
                     /\ Take(h2p.buf, prsz) = ClosingMsg))]_vars

C23_Witness ==
    /\ closed /\ pop = "call" /\ ppc = "idle" /\ expect.prev = "close"
    /\ nCloseSent = 1 /\ nAck = 1
\* C24 as stated: terminate() entered after a call or start() that ended
\* with end-of-stream returns without raising, with the local transport
\* closed and the process reaped.
C24_DeadSessionClosed ==
    (pop = "terminate" /\ ppc = "idle" /\ expect.eof)
        => /\ pres = Ok(None)
           /\ plocal = "closed" /\ pipe = "None"
           /\ proc \in {"exited", "killed"}
C25_ConnectOnce ==
    /\ wpipe["server"].waits <= 1 /\ wpipe["client"].waits = 0
    /\ wpipe["server"].ios > 0 => (wpipe["server"].waits = 1 /\ wpipe["client"].made)
    /\ \A e \in {"server", "client"} :
          /\ ~wpipe[e].early
          /\ wpipe[e].ios > 0 => wpipe[e].connected

C25_Witness ==
    /\ wpipe["server"].ios = 2 /\ wpipe["server"].waits = 1
    /\ wpipe["client"].ios = 2 /\ wpipe["client"].waits = 0
\* C26 as stated: when both endpoints of the FIFO pair have been closed, no
\* close() has raised and neither FIFO name nor the directory exists.
C26_CloseRemoves ==
    (\A e \in {"master", "slave"} : fifo.ep[e].pc = "closed")
        => /\ fifo.names = {}
           /\ \A e \in {"master", "slave"} : ~fifo.ep[e].raised

\* C27: once both endpoints are inside _open() both get through it; a FIFO
\* name is removed only when each endpoint holds each FIFO open or is in the
\* os.open that the other end has just met, no unlink fails, and when both
\* have got through _open() no FIFO name is left.
C27_OpenOrder ==
    /\ [](fifo.names # {"dir", "master", "slave"}
             => \A e \in {"master", "slave"} :
                    {"master", "slave"} \subseteq fifo.ep[e].has \cup {fifo.ep[e].want})
    /\ [](\A e \in {"master", "slave"} : ~fifo.ep[e].raised)
    /\ []((\A e \in {"master", "slave"} : fifo.ep[e].pc = "open")
             => fifo.names = {"dir"})
    /\ (\A e \in {"master", "slave"} : fifo.ep[e].pc \in {"o1", "o2"})
          ~> (\A e \in {"master", "slave"} : fifo.ep[e].pc \in {"open", "closed"})

C27_Witness ==
    /\ \A e \in {"master", "slave"} : fifo.ep[e].pc = "open"
    /\ fifo.names = {"dir"} /\ fifo.stolen = {}

=============================================================================
